---- MODULE Spec2Model ----
(***************************************************************************)
(* Electricity board management system (src/bot.py): three SQLite tables   *)
(* (clients, readings, bills) and one menu loop dispatching to handlers.   *)
(*                                                                         *)
(* Conventions of the model                                                *)
(*  - a text typed by the operator is a sequence of one-character strings; *)
(*    "ar3" names the single character U+0663 (ARABIC-INDIC DIGIT THREE);  *)
(*  - a REAL column holds a fixed-point number in thousandths of a kWh     *)
(*    (1005 is 1.005), so that rounding to two decimals does something;    *)
(*  - a table is the sequence of its rows in rowid order.                  *)
(***************************************************************************)
EXTENDS Integers, Sequences, FiniteSets, TLC

VARIABLES clients, clientSeq, readings, bills, pc, form, out

vars == <<clients, clientSeq, readings, bills, pc, form, out>>
store == <<clients, clientSeq, readings, bills>>

(* ------------------------------ bounds --------------------------------- *)
\* runs about the clients table: registrations (caps the AUTOINCREMENT counter),
\* rows of the readings table, rows of the bills table
ClientsMaxClients == 2
ClientsMaxReadings == 2
ClientsMaxBills == 1
\* runs about readings and bills: the same three
BillingMaxClients == 1
BillingMaxReadings == 2
BillingMaxBills == 1
\* clients of the stores drawn for the analysis specification
MaxTopClients == 6

(* ------------------------------ text ----------------------------------- *)
AsciiDigits == {"0", "1", "2", "3", "4", "5", "6", "7", "8", "9"}

\* what \d matches in a str pattern without re.ASCII: every Unicode decimal digit
UnicodeDigits == AsciiDigits \cup {"ar3"}

Whitespace == {" "}

DigitValue(c) ==
    CASE c = "0" -> 0 [] c = "1" -> 1 [] c = "2" -> 2 [] c = "3" -> 3
      [] c = "4" -> 4 [] c = "5" -> 5 [] c = "6" -> 6 [] c = "7" -> 7
      [] c = "8" -> 8 [] c = "9" -> 9 [] c = "ar3" -> 3 [] OTHER -> 0

\* rank of a character in code-point order (the order SQLite's BINARY collation uses)
CharRank(c) ==
    CASE c = " " -> 0 [] c = "-" -> 1 [] c = "." -> 2
      [] c \in AsciiDigits -> 3 + DigitValue(c)
      [] c = "A" -> 20 [] c = "B" -> 21 [] c = "C" -> 22 [] c = "D" -> 23
      [] c = "E" -> 24 [] c = "F" -> 25 [] c = "G" -> 26 [] c = "H" -> 27
      [] c = "N" -> 30 [] c = "Y" -> 31
      [] c = "a" -> 40 [] c = "m" -> 41 [] c = "n" -> 42 [] c = "x" -> 43
      [] c = "y" -> 44
      [] OTHER -> 99

RECURSIVE lstrip(_)
lstrip(s) == IF s # <<>> /\ Head(s) \in Whitespace THEN lstrip(Tail(s)) ELSE s

RECURSIVE rstrip(_)
rstrip(s) ==
    IF s # <<>> /\ s[Len(s)] \in Whitespace THEN rstrip(SubSeq(s, 1, Len(s) - 1)) ELSE s

\* str.strip()
strip(s) == rstrip(lstrip(s))

LowerChar(c) == CASE c = "Y" -> "y" [] c = "N" -> "n" [] OTHER -> c

\* str.lower()
lower(s) == [i \in 1..Len(s) |-> LowerChar(s[i])]

\* text comparison s < t, character by character
RECURSIVE TextLess(_, _)
TextLess(s, t) ==
    IF t = <<>> THEN FALSE
    ELSE IF s = <<>> THEN TRUE
    ELSE IF CharRank(Head(s)) # CharRank(Head(t)) THEN CharRank(Head(s)) < CharRank(Head(t))
    ELSE TextLess(Tail(s), Tail(t))

TextLeq(s, t) == s = t \/ TextLess(s, t)

\* x BETWEEN lo AND hi on TEXT values
Between(x, lo, hi) == TextLeq(lo, x) /\ TextLeq(x, hi)

RECURSIVE DigitsValue(_, _)
DigitsValue(s, acc) ==
    IF s = <<>> THEN acc ELSE DigitsValue(Tail(s), 10 * acc + DigitValue(Head(s)))

AllDigits(s) == \A i \in 1..Len(s) : s[i] \in UnicodeDigits

\* int(text) succeeds (surrounding whitespace is ignored, any decimal digit counts)
IsIntText(s) == strip(s) # <<>> /\ AllDigits(strip(s))

IntValue(s) == DigitsValue(strip(s), 0)

DotAt(s) == IF \E i \in 1..Len(s) : s[i] = "." THEN CHOOSE i \in 1..Len(s) : s[i] = "." ELSE 0

\* float(text) succeeds: digits with at most one decimal point and at least one digit
IsFloatText(s) ==
    LET t == strip(s)
        d == DotAt(t)
        ip == IF d = 0 THEN t ELSE SubSeq(t, 1, d - 1)
        fp == IF d = 0 THEN <<>> ELSE SubSeq(t, d + 1, Len(t))
    IN  /\ AllDigits(ip) /\ AllDigits(fp)
        /\ Len(ip) + Len(fp) > 0
        /\ Len(fp) <= 3

\* the parsed number, in thousandths
FloatValue(s) ==
    LET t == strip(s)
        d == DotAt(t)
        ip == IF d = 0 THEN t ELSE SubSeq(t, 1, d - 1)
        fp == IF d = 0 THEN <<>> ELSE SubSeq(t, d + 1, Len(t))
        pad == fp \o [i \in 1..(3 - Len(fp)) |-> "0"]
    IN  1000 * DigitsValue(ip, 0) + DigitsValue(pad, 0)

(* ------------------------------ inputs --------------------------------- *)
Nine == <<"9", "8", "7", "6", "5", "4", "3", "2", "1">>

TenAscii == Nine \o <<"0">>

\* ten decimal digits, the last of them not ASCII
TenUnicode == Nine \o <<"ar3">>

PhoneTexts ==
    { TenAscii,
      <<" ">> \o TenAscii,        \* the same behind a blank
      Nine,                       \* nine digits
      TenAscii \o <<"0">>,        \* eleven digits
      Nine \o <<"a">>,            \* a letter
      TenUnicode }

DigitChar(n) == CHOOSE c \in AsciiDigits : DigitValue(c) = n

\* ids typed at a prompt: the ids 1..n, one more, and a non-number
IdTexts(n) == { <<DigitChar(k)>> : k \in 1..(n + 1) } \cup { <<"x">> }

Jan1 == <<"0", "1">>
Jan2 == <<"0", "2">>

Zero == <<"0">>
OnePoint005 == <<"1", ".", "0", "0", "5">>

Choices == { "0", "1", "2", "3", "4", "5", "6", "7", "8", "9", "" }

\* the texts the operator types in the runs about the clients table, and their bounds
ClientsInputs ==
    [names    |-> { <<"A">>, <<"B">> },
     meters   |-> { <<"m", "1">>, <<"m", "2">>, <<"m", "1", " ">> },
     phones   |-> PhoneTexts,
     ids      |-> IdTexts(ClientsMaxClients),
     confirms |-> { <<"y">>, <<"Y">>, <<"n">>, <<>> },
     cids     |-> { <<"1">> },
     dates    |-> { Jan1 },
     rtexts   |-> { <<<<"1">>, Jan1, Zero>>, <<<<"1">>, Jan1, <<"x">>>> },
     maxClients |-> ClientsMaxClients,
     maxReadings |-> ClientsMaxReadings,
     maxBills |-> ClientsMaxBills]

\* the texts the operator types in the runs about readings and bills, and their bounds
BillingInputs ==
    [names    |-> { <<"A">> },
     meters   |-> { <<"m", "1">> },
     phones   |-> { TenAscii, Nine },
     ids      |-> { <<"1">>, <<"x">> },
     confirms |-> { <<"y">>, <<"n">> },
     cids     |-> { <<"1">>, <<"2">> },
     dates    |-> { Jan1, Jan2 },
     rtexts   |-> { <<<<"1">>, Jan1, Zero>>, <<<<"1">>, Jan1, OnePoint005>>,
                    <<<<"1">>, Jan2, Zero>>, <<<<"1">>, Jan2, OnePoint005>>,
                    <<<<"2">>, Jan1, Zero>>, <<<<"2">>, Jan2, <<"x">>>> },
     maxClients |-> BillingMaxClients,
     maxReadings |-> BillingMaxReadings,
     maxBills |-> BillingMaxBills]

(* ------------------------------ state ---------------------------------- *)
NoForm == [name |-> <<>>, meter |-> <<>>, address |-> <<>>]

NoStats == [total_units |-> 0, total_amount |-> 0, max_units |-> 0]

\* what the last handler printed: its message, and for the analysis its figures
Out(op, msg) == [op |-> op, msg |-> msg, stats |-> NoStats, top |-> <<>>]

\* create_tables on a fresh database file
Init ==
    /\ clients = <<>>
    /\ clientSeq = 0
    /\ readings = <<>>
    /\ bills = <<>>
    /\ pc = "menu"
    /\ form = NoForm
    /\ out = Out("start", "")

(* ------------------------------ queries -------------------------------- *)
\* SELECT * FROM clients WHERE id=?
ClientsWithId(id) == SelectSeq(clients, LAMBDA c : c.id = id)

\* a clients table without the UNIQUE constraint
MeterTaken_never(meter) == FALSE

\* the UNIQUE constraint on clients.meter_no would be violated by this value
MeterTaken(meter) == \E i \in 1..Len(clients) : clients[i].meter_no = meter

\* c.name of the row an inner JOIN ... ON x.client_id = c.id pairs with client_id
HasClient(client_id) == \E i \in 1..Len(clients) : clients[i].id = client_id

NameOfClient(client_id) ==
    clients[CHOOSE i \in 1..Len(clients) : clients[i].id = client_id].name

\* every order of the rows at the indices I that is ascending by date
\* (SQL leaves the order of rows with equal ORDER BY keys unspecified)
RECURSIVE OrdersOf(_, _)
OrdersOf(rows, I) ==
    IF I = {} THEN { <<>> }
    ELSE LET firsts == { i \in I : \A j \in I : TextLeq(rows[i].date, rows[j].date) }
         IN  UNION { { <<rows[i]>> \o t : t \in OrdersOf(rows, I \ {i}) } : i \in firsts }

OrdersByDate(rows) == OrdersOf(rows, DOMAIN rows)

\* SELECT r.id, c.name, r.date, r.reading FROM readings r JOIN clients c ON r.client_id=c.id
ReadingsJoinClients ==
    LET kept == SelectSeq(readings, LAMBDA r : HasClient(r.client_id))
    IN  [i \in 1..Len(kept) |->
            [id |-> kept[i].id, name |-> NameOfClient(kept[i].client_id),
             date |-> kept[i].date, reading |-> kept[i].reading]]

\* SELECT b.id, c.name, b.start_date, b.end_date, b.units, b.amount, b.status
\* FROM bills b JOIN clients c ON b.client_id=c.id
BillsJoinClients ==
    LET kept == SelectSeq(bills, LAMBDA b : HasClient(b.client_id))
    IN  [i \in 1..Len(kept) |->
            [id |-> kept[i].id, name |-> NameOfClient(kept[i].client_id),
             start_date |-> kept[i].start_date, end_date |-> kept[i].end_date,
             units |-> kept[i].units, amount |-> kept[i].amount,
             status |-> kept[i].status]]

\* SELECT reading FROM readings WHERE client_id=? AND date BETWEEN ? AND ?
MatchingReadings(client_id, start, end) ==
    SelectSeq(readings, LAMBDA r : r.client_id = client_id /\ Between(r.date, start, end))

(* ------------------------------ billing -------------------------------- *)
\* np.round(x, 2) on thousandths: to the nearest hundredth, halves to the even one
Round2(x) ==
    LET q == x \div 10
        r == x % 10
    IN  IF r < 5 THEN 10 * q
        ELSE IF r > 5 THEN 10 * (q + 1)
        ELSE IF q % 2 = 0 THEN 10 * q ELSE 10 * (q + 1)

Rate == 5

MinReadings == 2

\* a single reading taken for enough
NotEnoughReadings_one(n) == n < MinReadings - 1

NotEnoughReadings(n) == n < MinReadings

\* the subtraction the other way round
BillUnits_swapped(first, last) == Round2(first - last)

BillUnits(first, last) == Round2(last - first)

BillAmount(units) == Round2(units * Rate)

\* the row generate_bill inserts, given the first and the last reading fetched
BillRow(id, client_id, start, end, first, last) ==
    [id |-> id, client_id |-> client_id, start_date |-> start, end_date |-> end,
     units |-> BillUnits(first, last), amount |-> BillAmount(BillUnits(first, last)),
     status |-> "Unpaid"]

NewBill(client_id, start, end, first, last) ==
    BillRow(Len(bills) + 1, client_id, start, end, first, last)

(* ------------------------------ analysis ------------------------------- *)
RECURSIVE SumOf(_, _)
\* the sum of column col of rows
SumOf(rows, col) == IF rows = <<>> THEN 0 ELSE Head(rows)[col] + SumOf(Tail(rows), col)

MaxOf(rows, col) ==
    LET vals == { rows[i][col] : i \in 1..Len(rows) }
    IN  CHOOSE m \in vals : \A v \in vals : v <= m

\* groupby("name")["units"].sum()
GroupSum(rows, name) == SumOf(SelectSeq(rows, LAMBDA r : r.name = name), "units")

GroupNames(rows) == { rows[i].name : i \in 1..Len(rows) }

\* every order of the groups in G that is descending by summed units
\* (sort_values uses an unstable sort: groups with equal sums come in any order)
RECURSIVE DescendingOrders(_, _)
DescendingOrders(rows, G) ==
    IF G = {} THEN { <<>> }
    ELSE LET firsts == { g \in G : \A h \in G : GroupSum(rows, h) <= GroupSum(rows, g) }
         IN  UNION { { <<[name |-> g, units |-> GroupSum(rows, g)]>> \o t :
                         t \in DescendingOrders(rows, G \ {g}) } : g \in firsts }

TopN == 5

\* .head(n)
HeadN(s, n) == SubSeq(s, 1, IF Len(s) < n THEN Len(s) ELSE n)

Reverse(s) == [i \in 1..Len(s) |-> s[Len(s) + 1 - i]]

\* sort_values without ascending=False
TopConsumers_ascending(rows) ==
    { HeadN(Reverse(s), TopN) : s \in DescendingOrders(rows, GroupNames(rows)) }

\* the lists groupby(...).sum().sort_values(ascending=False).head(5) can give
TopConsumers(rows) == { HeadN(s, TopN) : s \in DescendingOrders(rows, GroupNames(rows)) }

Stats(rows) ==
    [total_units |-> SumOf(rows, "units"), total_amount |-> SumOf(rows, "amount"),
     max_units |-> MaxOf(rows, "units")]

(* ------------------------------ handlers ------------------------------- *)
\* validate_phone: re.fullmatch(r"\d{10}", phone)
validate_phone(phone) == Len(phone) = 10 /\ \A i \in 1..Len(phone) : phone[i] \in UnicodeDigits

\* add_client up to the phone prompt: the three fields are read and stripped
AddClientBegin(name, meter, address) ==
    /\ pc = "menu"
    /\ pc' = "phone_prompt"
    /\ form' = [name |-> strip(name), meter |-> strip(meter), address |-> strip(address)]
    /\ out' = Out("add_client", "enter_phone")
    /\ UNCHANGED store

InsertClient(phone) ==
    Append(clients, [id |-> clientSeq + 1, name |-> form.name, meter_no |-> form.meter,
                     address |-> form.address, phone |-> phone])

\* one turn of add_client's phone loop, and the INSERT once the phone is accepted
AddClientPhone(text) ==
    LET phone == strip(text) IN
    /\ pc = "phone_prompt"
    /\ IF ~validate_phone(phone)
       THEN /\ out' = Out("add_client", "invalid_phone")
            /\ UNCHANGED <<store, pc, form>>
       ELSE /\ pc' = "menu"
            /\ form' = NoForm
            /\ UNCHANGED <<readings, bills>>
            /\ IF MeterTaken(form.meter)
               THEN /\ out' = Out("add_client", "meter_exists")
                    /\ UNCHANGED <<clients, clientSeq>>
               ELSE /\ clients' = InsertClient(phone)
                    /\ clientSeq' = clientSeq + 1
                    /\ out' = Out("add_client", "added")

ViewClients ==
    /\ pc = "menu"
    /\ out' = Out("view_clients", IF clients = <<>> THEN "none" ELSE "listed")
    /\ UNCHANGED <<store, pc, form>>

\* the DELETE without its WHERE clause
DeleteClient_all(id) == <<>>

\* DELETE FROM clients WHERE id=?
DeleteClient(id) == SelectSeq(clients, LAMBDA c : c.id # id)

\* everything but n taken for a yes
Confirmed_unlessNo(confirm) == lower(confirm) # <<"n">>

Confirmed(confirm) == lower(confirm) = <<"y">>

RemoveClient(idText, confirm) ==
    /\ pc = "menu"
    /\ UNCHANGED <<clientSeq, readings, bills, pc, form>>
    /\ IF ~IsIntText(idText)
       THEN /\ out' = Out("remove_client", "invalid_input")
            /\ UNCHANGED clients
       ELSE LET id == IntValue(idText) IN
            IF ClientsWithId(id) = <<>>
            THEN /\ out' = Out("remove_client", "not_found")
                 /\ UNCHANGED clients
            ELSE IF Confirmed(confirm)
            THEN /\ clients' = DeleteClient(id)
                 /\ out' = Out("remove_client", "removed")
            ELSE /\ out' = Out("remove_client", "cancelled")
                 /\ UNCHANGED clients

\* add_reading: float() of a text that is no number raises ValueError, which nothing catches
AddReading(cidText, date, text) ==
    /\ pc = "menu"
    /\ UNCHANGED <<clients, clientSeq, bills, form>>
    /\ IF ~IsFloatText(text)
       THEN /\ pc' = "crashed"
            /\ out' = Out("add_reading", "ValueError")
            /\ UNCHANGED readings
       ELSE /\ readings' = Append(readings,
                   [id |-> Len(readings) + 1, client_id |-> IntValue(cidText),
                    date |-> date, reading |-> FloatValue(text)])
            /\ out' = Out("add_reading", "added")
            /\ UNCHANGED pc

ViewReadings ==
    /\ pc = "menu"
    /\ out' = Out("view_readings", IF ReadingsJoinClients = <<>> THEN "none" ELSE "listed")
    /\ UNCHANGED <<store, pc, form>>

GenerateBill(cidText, start, end) ==
    LET client_id == IntValue(cidText)
        found == MatchingReadings(client_id, start, end)
    IN  /\ pc = "menu"
        /\ UNCHANGED <<clients, clientSeq, readings, pc, form>>
        /\ IF NotEnoughReadings(Len(found))
           THEN /\ out' = Out("generate_bill", "not_enough")
                /\ UNCHANGED bills
           ELSE /\ \E ord \in OrdersByDate(found) :
                      bills' = Append(bills,
                          NewBill(client_id, start, end, ord[1].reading, ord[Len(ord)].reading))
                /\ out' = Out("generate_bill", "generated")

ViewBills ==
    /\ pc = "menu"
    /\ out' = Out("view_bills", IF BillsJoinClients = <<>> THEN "none" ELSE "listed")
    /\ UNCHANGED <<store, pc, form>>

ShowAnalysis ==
    /\ pc = "menu"
    /\ UNCHANGED <<store, pc, form>>
    /\ LET rows == BillsJoinClients IN
       IF rows = <<>>
       THEN out' = Out("show_analysis", "no_data")
       ELSE \E top \in TopConsumers(rows) :
               out' = [Out("show_analysis", "report") EXCEPT !.stats = Stats(rows), !.top = top]

\* choice '0'
Exit ==
    /\ pc = "menu"
    /\ pc' = "exited"
    /\ out' = Out("exit", "bye")
    /\ UNCHANGED <<store, form>>

\* any other choice
InvalidChoice ==
    /\ pc = "menu"
    /\ \E choice \in Choices : choice \notin {"0", "1", "2", "3", "4", "5", "6", "7", "8"}
    /\ out' = Out("menu", "invalid_choice")
    /\ UNCHANGED <<store, pc, form>>

\* main_menu: one turn of the loop (or of add_client's phone loop), the operator
\* typing texts of in, while the tables are within the bounds of in
main_menu(in) ==
    \/ /\ clientSeq < in.maxClients
       /\ \E n \in in.names, m \in in.meters : AddClientBegin(n, m, <<"x">>)
    \/ \E p \in in.phones : AddClientPhone(p)
    \/ ViewClients
    \/ \E i \in in.ids, c \in in.confirms : RemoveClient(i, c)
    \/ /\ Len(readings) < in.maxReadings
       /\ \E r \in in.rtexts : AddReading(r[1], r[2], r[3])
    \/ ViewReadings
    \/ /\ Len(bills) < in.maxBills
       /\ \E i \in in.cids, s \in in.dates, e \in in.dates : GenerateBill(i, s, e)
    \/ ViewBills
    \/ ShowAnalysis
    \/ Exit
    \/ InvalidChoice

NextClients == main_menu(ClientsInputs)

NextBilling == main_menu(BillingInputs)

\* runs about the clients table
SpecClients == Init /\ [][NextClients]_vars

\* runs about readings and bills
SpecBilling == Init /\ [][NextBilling]_vars

(* ------------------- stores drawn for the analysis ---------------------- *)
Letters == <<"A", "B", "C", "D", "E", "F", "G", "H">>

\* The store after this run: n clients are registered (when share holds the second
\* under the name of the first), each gets the readings 0 on Jan1 and kwh[i] on Jan2
\* and is billed for Jan1..Jan2, the first one again when twice holds, and at last
\* client gone is removed (0: nobody).
TopClients(n, share, gone) ==
    SelectSeq([i \in 1..n |->
                  [id |-> i,
                   name |-> IF share /\ i = 2 THEN <<Letters[1]>> ELSE <<Letters[i]>>,
                   meter_no |-> <<"m", DigitChar(i)>>, address |-> <<"x">>,
                   phone |-> TenAscii]],
              LAMBDA c : c.id # gone)

TopReadings(n, kwh) ==
    [j \in 1..(2 * n) |->
        [id |-> j, client_id |-> (j + 1) \div 2,
         date |-> IF j % 2 = 1 THEN Jan1 ELSE Jan2,
         reading |-> IF j % 2 = 1 THEN 0 ELSE kwh[(j + 1) \div 2]]]

TopBills(n, kwh, twice) ==
    [j \in 1..(IF twice /\ n > 0 THEN n + 1 ELSE n) |->
        LET i == IF j > n THEN 1 ELSE j
        IN  BillRow(j, i, Jan1, Jan2, 0, kwh[i])]

InitTop ==
    \E n \in 0..MaxTopClients, share \in BOOLEAN, twice \in BOOLEAN :
    \E gone \in {0, n}, kwh \in [1..n -> {1000, 2000}] :
        /\ clients = TopClients(n, share, gone)
        /\ clientSeq = n
        /\ readings = TopReadings(n, kwh)
        /\ bills = TopBills(n, kwh, twice)
        /\ pc = "menu"
        /\ form = NoForm
        /\ out = Out("start", "")

\* choice '8', once
NextTop == out.op = "start" /\ ShowAnalysis

\* the analysis applied to each drawn store
SpecTop == InitTop /\ [][NextTop]_vars

(* ------------------------------ properties ----------------------------- *)
IsPrefix(s, t) == Len(s) <= Len(t) /\ SubSeq(t, 1, Len(s)) = s

Min(a, b) == IF a < b THEN a ELSE b

Last(s) == s[Len(s)]

\* C1: no operator input ends the process: the loop is left through choice "0" only.
C1_NoDataErrorEndsProcess ==
    /\ pc # "crashed"
    /\ pc = "exited" => out.op = "exit"

\* C2: once a listing is shown, every stored Client, Reading and Bill is in it with
\* its field values, whatever its client_id refers to.
C2_RoundTrip ==
    /\ out.op = "view_readings" =>
          \A i \in 1..Len(readings) : \E k \in 1..Len(ReadingsJoinClients) :
              /\ ReadingsJoinClients[k].id = readings[i].id
              /\ ReadingsJoinClients[k].date = readings[i].date
              /\ ReadingsJoinClients[k].reading = readings[i].reading
    /\ out.op = "view_bills" =>
          \A i \in 1..Len(bills) : \E k \in 1..Len(BillsJoinClients) :
              /\ BillsJoinClients[k].id = bills[i].id
              /\ BillsJoinClients[k].units = bills[i].units
              /\ BillsJoinClients[k].amount = bills[i].amount
              /\ BillsJoinClients[k].status = bills[i].status

\* C6: the analysis reports "no data" exactly when the bills table is empty, and
\* otherwise the sum of units, the sum of amount and the maximum of units over all
\* stored Bills.
C6_AnalyzeAllBills ==
    out.op = "show_analysis" =>
        /\ out.msg = "no_data" <=> bills = <<>>
        /\ out.msg = "report" =>
              /\ out.stats.total_units = SumOf(bills, "units")
              /\ out.stats.total_amount = SumOf(bills, "amount")
              /\ out.stats.max_units = MaxOf(bills, "units")

\* C8: every stored Client has a phone of exactly 10 ASCII digits.
C8_PhoneTenAsciiDigits ==
    \A i \in 1..Len(clients) :
        /\ Len(clients[i].phone) = 10
        /\ \A k \in 1..Len(clients[i].phone) : clients[i].phone[k] \in AsciiDigits

(* --------------------------- billing properties ------------------------ *)
\* the stored readings of client_id dated within [start, end]
InRange(client_id, start, end) ==
    { k \in 1..Len(readings) :
        /\ readings[k].client_id = client_id
        /\ TextLeq(start, readings[k].date)
        /\ TextLeq(readings[k].date, end) }

Earliest(K) == { k \in K : \A j \in K : TextLeq(readings[k].date, readings[j].date) }

Latest(K) == { k \in K : \A j \in K : TextLeq(readings[j].date, readings[k].date) }

\* u is d rounded to the nearest hundredth, a half going to the even hundredth
IsRounded2(u, d) ==
    /\ u % 10 = 0
    /\ u - d \in -5..5
    /\ (u - d \in {-5, 5}) => (u \div 10) % 2 = 0

AllCids == ClientsInputs.cids \cup BillingInputs.cids

AllDates == ClientsInputs.dates \cup BillingInputs.dates

AllConfirms == ClientsInputs.confirms \cup BillingInputs.confirms

AllIds == ClientsInputs.ids \cup BillingInputs.ids

\* C3 as claimed: with two or more readings in range generateBill adds one Bill
\* whose units are exactly latest-dated value minus earliest-dated value, whichever
\* of the readings sharing those dates is taken, and whose amount is 5 times that.
C3_UnitsExactDifference ==
    [][ out'.op = "generate_bill" =>
          \A i \in AllCids, s \in AllDates, e \in AllDates :
          LET K == InRange(IntValue(i), s, e) IN
          (GenerateBill(i, s, e) /\ Cardinality(K) >= 2) =>
              /\ Len(bills') = Len(bills) + 1
              /\ \A f \in Earliest(K), l \in Latest(K) :
                    /\ Last(bills').units = readings[l].reading - readings[f].reading
                    /\ Last(bills').amount = 5 * Last(bills').units
              /\ Last(bills').status = "Unpaid" ]_vars

\* C3 amended: with two or more readings in range generateBill adds exactly one
\* Bill, for that client and period, with status "Unpaid"; its units are the
\* difference, rounded to two decimals, between the value of a reading of the
\* latest date in range and the value of a reading of the earliest date in range
\* (negative differences included); its amount is 5 times its units. Readings 100
\* and 135 give units 35 and amount 175.
C3_UnitsRoundedDifference ==
    /\ [](BillUnits(100000, 135000) = 35000 /\ BillAmount(35000) = 175000)
    /\ [][ out'.op = "generate_bill" =>
             \A i \in AllCids, s \in AllDates, e \in AllDates :
             LET K == InRange(IntValue(i), s, e) IN
             (GenerateBill(i, s, e) /\ Cardinality(K) >= 2) =>
                 /\ Len(bills') = Len(bills) + 1
                 /\ IsPrefix(bills, bills')
                 /\ UNCHANGED <<clients, clientSeq, readings>>
                 /\ out'.msg = "generated"
                 /\ Last(bills').client_id = IntValue(i)
                 /\ Last(bills').start_date = s /\ Last(bills').end_date = e
                 /\ Last(bills').status = "Unpaid"
                 /\ \E f \in Earliest(K), l \in Latest(K) :
                       IsRounded2(Last(bills').units,
                                  readings[l].reading - readings[f].reading)
                 /\ Last(bills').amount = 5 * Last(bills').units ]_vars

\* a Bill with negative units, rounded, was generated from two readings
C3_Witness ==
    /\ out.op = "generate_bill" /\ out.msg = "generated"
    /\ Cardinality(InRange(Last(bills).client_id, Last(bills).start_date,
                           Last(bills).end_date)) = 2
    /\ Last(bills).units = -1000

\* C4: generateBill with 0 or 1 readings of the client in the range reports the
\* insufficient-data outcome and changes nothing in the store.
C4_TooFewReadingsNoBill ==
    [][ out'.op = "generate_bill" =>
          \A i \in AllCids, s \in AllDates, e \in AllDates :
          (GenerateBill(i, s, e) /\ Cardinality(InRange(IntValue(i), s, e)) < 2) =>
              /\ out'.msg = "not_enough"
              /\ UNCHANGED store ]_vars

\* generateBill was refused although the client has a reading
C4_Witness ==
    /\ out.op = "generate_bill" /\ out.msg = "not_enough"
    /\ \E k \in 1..Len(readings) : readings[k].client_id = 1
    /\ \E k \in 1..Len(readings) : readings[k].client_id = 2

(* --------------------------- client properties ------------------------- *)
\* C5: a registration whose meter number is already stored reports the conflict and
\* leaves the clients table as it was; stored meter numbers are pairwise distinct.
C5_MeterUnique ==
    /\ [](\A i, j \in 1..Len(clients) : i # j => clients[i].meter_no # clients[j].meter_no)
    /\ [][ out'.op = "add_client" =>
             \A p \in PhoneTexts :
             (/\ AddClientPhone(p)
              /\ pc' = "menu"
              /\ \E k \in 1..Len(clients) : clients[k].meter_no = form.meter) =>
                 /\ out'.msg = "meter_exists"
                 /\ UNCHANGED store ]_vars

\* a registration was refused for its meter number while two clients are stored
C5_Witness ==
    /\ out.op = "add_client" /\ out.msg = "meter_exists"
    /\ Len(clients) >= 1

\* C7: the readings and bills tables only grow, and a confirmed removeClient(id)
\* deletes the row of that id and nothing else.
C7_OnlyClientRowDeleted ==
    [][ /\ IsPrefix(readings, readings')
        /\ IsPrefix(bills, bills')
        /\ out'.op = "remove_client" =>
              \A i \in AllIds, c \in {<<"y">>, <<"Y">>} :
              (/\ RemoveClient(i, c)
               /\ IsIntText(i)
               /\ \E k \in 1..Len(clients) : clients[k].id = IntValue(i)) =>
                  /\ out'.msg = "removed"
                  /\ readings' = readings /\ bills' = bills
                  /\ Len(clients') = Len(clients) - 1
                  /\ \A k \in 1..Len(clients') : clients'[k].id # IntValue(i)
                  /\ \A k \in 1..Len(clients) :
                        clients[k].id # IntValue(i) =>
                            \E m \in 1..Len(clients') : clients'[m] = clients[k] ]_vars

\* a client with a reading and a bill was removed while another client stays
C7_Witness ==
    /\ out.op = "remove_client" /\ out.msg = "removed"
    /\ Len(clients) = 1
    /\ \E k \in 1..Len(readings) : ~HasClient(readings[k].client_id)
    /\ \E k \in 1..Len(bills) : ~HasClient(bills[k].client_id)

\* C10: removeClient with an id no stored Client has reports not-found, and
\* removeClient answered with anything but y (in either case) changes nothing.
C10_RemoveRefused ==
    [][ out'.op = "remove_client" =>
          \A i \in AllIds, c \in AllConfirms :
          RemoveClient(i, c) =>
              /\ (IsIntText(i) /\ \A k \in 1..Len(clients) : clients[k].id # IntValue(i)) =>
                    (out'.msg = "not_found" /\ UNCHANGED store)
              /\ c \notin {<<"y">>, <<"Y">>} => UNCHANGED store ]_vars

\* a removal was cancelled by the operator while clients are stored
C10_Witness ==
    /\ out.op = "remove_client" /\ out.msg = "cancelled"
    /\ Len(clients) = 2

(* --------------------------- analysis properties ----------------------- *)
\* names of the clients the bills table's rows join to
BilledNames ==
    { NameOfClient(bills[i].client_id) :
        i \in { j \in 1..Len(bills) : HasClient(bills[j].client_id) } }

\* units billed to the stored clients of this name
NameUnits(name) ==
    SumOf(SelectSeq(bills, LAMBDA b : HasClient(b.client_id)
                                        /\ NameOfClient(b.client_id) = name), "units")

\* C9: the top consumers are (name, summed units) pairs of distinct billed client
\* names, min(5, number of names) of them, in non-increasing order of the sums, and
\* no name left out has a greater sum than a listed one; (A,10),(B,20),(A,5) give
\* [(B,20),(A,15)].
C9_TopConsumers ==
    /\ TopConsumers(<<[name |-> <<"A">>, units |-> 10000], [name |-> <<"B">>, units |-> 20000],
                      [name |-> <<"A">>, units |-> 5000]>>)
         = { <<[name |-> <<"B">>, units |-> 20000], [name |-> <<"A">>, units |-> 15000]>> }
    /\ (out.op = "show_analysis" /\ out.msg = "report") =>
          LET top == out.top IN
          /\ Len(top) = Min(5, Cardinality(BilledNames))
          /\ \A i \in 1..Len(top) :
                top[i].name \in BilledNames /\ top[i].units = NameUnits(top[i].name)
          /\ \A i, j \in 1..Len(top) :
                i < j => (top[i].name # top[j].name /\ top[i].units >= top[j].units)
          /\ \A n \in BilledNames :
                (\A i \in 1..Len(top) : top[i].name # n) =>
                    \A i \in 1..Len(top) : NameUnits(n) <= top[i].units

\* six names are billed and one is left out of the five listed
C9_Witness ==
    /\ out.op = "show_analysis" /\ out.msg = "report"
    /\ Cardinality(BilledNames) = 6
    /\ Len(out.top) = 5
    /\ out.top[1].units > out.top[5].units

====
